---- MODULE Spec2Model ----
(***************************************************************************)
(* A model of the WebXR hit-test demo (src/main.ts): the click handler     *)
(* activateXR, split at its awaits, and the callbacks it registers on the  *)
(* XR session (select, end, the animation-frame callback onXRFrame) and on *)
(* the glTF loader (reticle and model loaded).  The page may instead be    *)
(* the first lab (src/unnamed/part_000), the same activateXR with a cube   *)
(* in the scene and no hit test, loader or select listener: `lab` says     *)
(* which of the two scripts the page runs.                                 *)
(*                                                                         *)
(* A JavaScript callback runs to completion, so each callback is one       *)
(* action; activateXR is one action per segment between two awaits.        *)
(*                                                                         *)
(* A THREE.Vector3 is a mutable object: the model keeps them in `heap`     *)
(* and an Object3D holds the index of its position vector, so that a copy  *)
(* (Vector3.copy, Vector3.set) and a shared reference are different        *)
(* things.  Coordinates are integers; a scale is kept in tenths (0.2 is    *)
(* 2, 1 is 10).                                                            *)
(*                                                                         *)
(* The variables of the closure of activateXR (scene, reticle, model,      *)
(* objectsPlaced, hitTestSource, the listeners) are those of the most      *)
(* recent activation: a new click that gets as far as creating a scene     *)
(* starts a new closure.  The callbacks an earlier activation registered   *)
(* (its loads, its frame callback, its select listener) stay registered    *)
(* and work on the closure of that activation, kept in `earlier`; an       *)
(* activation that registered none can no longer be reached and is         *)
(* dropped.                                                                *)
(***************************************************************************)
EXTENDS Integers, Sequences, FiniteSets, TLC

\* Bounds of the model: the coordinates of a hit, the objects placed over all
\* activations, the earlier activations whose callbacks are followed.
MaxCoord == 2
MaxPlaced == 2
MaxEarlier == 1

----------------------------------------------------------------------------
\* Values

ZeroVec == <<0, 0, 0>>
IdentityQuat == <<0, 0, 0, 1>>
UnitScale == <<10, 10, 10>>
ModelScale == <<2, 2, 2>>
DirectionalLightPosition == <<10, 15, 10>>
CubePosition == <<1, 1, 1>>

\* The poses a hit test may report.
HitPositions == {<<c, c + 1, 0 - c>> : c \in 1..MaxCoord}
HitOrientations == {IdentityQuat, <<0, 1, 0, 0>>}

\* What frame.getHitTestResults and hitTestResults[0].getPose give:
\* no result, a result whose pose is null, a result with a pose.
NoResults == [results |-> 0, hasPose |-> FALSE,
              position |-> ZeroVec, orientation |-> IdentityQuat]
NullPose == [results |-> 1, hasPose |-> FALSE,
             position |-> ZeroVec, orientation |-> IdentityQuat]
HitAt(p, q) == [results |-> 1, hasPose |-> TRUE, position |-> p, orientation |-> q]
HitResults == {NoResults, NullPose} \cup {HitAt(p, q) : p \in HitPositions, q \in HitOrientations}

\* What one XRFrame gives the callback: the base layer, the viewer pose, the
\* viewport and the hit-test results.  A frame that stops early carries no
\* hit-test results.
FrameOf(b, v, w, h) == [baseLayer |-> b, viewerPose |-> v, viewport |-> w, hit |-> h]
NoFrame == FrameOf(FALSE, FALSE, FALSE, NoResults)
FrameInputs == {FrameOf(FALSE, TRUE, TRUE, NoResults),
                FrameOf(TRUE, FALSE, TRUE, NoResults),
                FrameOf(TRUE, TRUE, FALSE, NoResults)}
               \cup {FrameOf(TRUE, TRUE, TRUE, h) : h \in HitResults}

\* An Object3D: its position is the index of a Vector3 in the heap.
Object3D(kind, ref, q, s) == [kind |-> kind, position |-> ref, quaternion |-> q, scale |-> s]
\* A variable holding null (reticle, model before their load callbacks).
NullObject == [loaded |-> FALSE, visible |-> FALSE, position |-> 0,
               quaternion |-> IdentityQuat, scale |-> UnitScale]

\* Number.prototype.toFixed(2) of an integer coordinate, in hundredths.
ToFixed2(x) == x * 100
LogEntry(event, p, total) ==
  [event |-> event, position |-> <<ToFixed2(p[1]), ToFixed2(p[2]), ToFixed2(p[3])>>, total |-> total]
Log(event) == LogEntry(event, ZeroVec, 0)

\* Messages shown in #message.
MsgNone == ""
MsgStarting == "Starting AR... Allow camera access if the browser asks."
MsgUnsupported == "WebXR not supported. Use Chrome on an ARCore-compatible Android device."
MsgNoWebGL == "Could not get WebGL context."
MsgSessionFailed == "AR session failed: <err>. Allow camera and reload."
MsgActive == "AR active. Point at a surface and tap to place the ammo crate."
MsgActiveCube == "AR active. Move your device to see the 1x1x1 m cube."
MsgEnded == "AR session ended. You can start again."
MsgError == "Error: <err>"

VARIABLES
  lab,            \* the script of the page: 1 is part_000 (the cube), 2 is main.ts
  btnDisabled,    \* #start-ar .disabled
  message,        \* #message .textContent
  pc,             \* where activateXR is: "idle" or the await it is suspended at
  session,        \* the XRSession of the page: "none", "active", "ended"
  listening,      \* the select and end listeners of this activation are registered
  pending,        \* animation-frame callbacks requested and not yet run
  hitTestSource,  \* hitTestSource is defined
  reticleLoad,    \* the reticle's gltfLoader.load: "none", "pending", "done"
  modelLoad,      \* the model's gltfLoader.load: "none", "pending", "done"
  reticle,        \* let reticle
  model,          \* let model
  heap,           \* the Vector3 objects allocated, by index
  scene,          \* scene.children
  objectsPlaced,  \* let objectsPlaced
  console,        \* what the most recent callback logged
  last,           \* the most recent callback, the activation it belongs to and,
                  \* for a frame, its XRFrame
  settled,        \* the marker as the most recent frame callback left it, and
                  \* the position of the latest estimate written to it
  burst,          \* the selects in a row, of one activation, since one found the
                  \* asset loaded and the marker visible: how many, the counter
                  \* before, the marker's place
  scenario,       \* the latest frames of the most recent activation, no callback of
                  \* an earlier one among them, as far as they follow ScenarioPattern
  earlier         \* the closures of the earlier activations that registered callbacks

vars == <<lab, btnDisabled, message, pc, session, listening, pending, hitTestSource,
          reticleLoad, modelLoad, reticle, model, heap, scene, objectsPlaced,
          console, last, settled, burst, scenario, earlier>>

page == <<btnDisabled, message>>
closure == <<hitTestSource, reticleLoad, modelLoad, reticle, model, heap, scene, objectsPlaced>>
marker == <<reticle, heap>>

\* The closure of the most recent activation as one value, the form in which
\* `earlier` keeps the closures of the activations before it.
Activation ==
  [hitTestSource |-> hitTestSource, reticleLoad |-> reticleLoad, modelLoad |-> modelLoad,
   reticle |-> reticle, model |-> model, heap |-> heap, scene |-> scene,
   objectsPlaced |-> objectsPlaced, pending |-> pending, settled |-> settled]
\* The closure a callback works on: 0 is the most recent activation.
ActivationOf(k) == IF k = 0 THEN Activation ELSE earlier[k]
Activations == 0..Len(earlier)
\* The objects placed over all the activations followed, which MaxPlaced caps.
RECURSIVE PlacedIn(_)
PlacedIn(e) == IF e = <<>> THEN 0 ELSE e[1].objectsPlaced + PlacedIn(Tail(e))
TotalPlaced == objectsPlaced + PlacedIn(earlier)

----------------------------------------------------------------------------
\* The marker and the scene, read

\* Of a closure c, and of the most recent activation.
MarkerVisibleOf(c) == c.reticle.loaded /\ c.reticle.visible
MarkerPositionOf(c) == IF c.reticle.loaded THEN c.heap[c.reticle.position] ELSE ZeroVec
MarkerOrientationOf(c) == c.reticle.quaternion
\* The asset template is loaded and the marker is visible.
ReadyOf(c) == c.model.loaded /\ MarkerVisibleOf(c)
Clones(sc) == SelectSeq(sc, LAMBDA c : c.kind = "clone")
PlacedOf(c) == Clones(c.scene)

MarkerVisible == reticle.loaded /\ reticle.visible
MarkerPosition == IF reticle.loaded THEN heap[reticle.position] ELSE ZeroVec
MarkerOrientation == reticle.quaternion
Ready == model.loaded /\ MarkerVisible
Placed == Clones(scene)

----------------------------------------------------------------------------
\* Vector3

\* A Vector3.set that writes x and y and leaves z as it was.
VecSetXY(h, ref, x, y, z) == [h EXCEPT ![ref] = <<x, y, h[ref][3]>>]
\* Vector3.set(x, y, z)
VecSet(h, ref, x, y, z) == [h EXCEPT ![ref] = <<x, y, z>>]
\* Vector3.copy(v)
VecCopy(h, dst, src) == [h EXCEPT ![dst] = h[src]]

----------------------------------------------------------------------------
\* History kept beside the program's state

\* The callback that ran, its XRFrame, and the activation it belongs to: 0 is
\* the most recent one, k > 0 is earlier[k].
DidIn(op, k) == [op |-> op, frame |-> NoFrame, activation |-> k]
DidFrameIn(f, k) == [op |-> "frame", frame |-> f, activation |-> k]
Did(op) == DidIn(op, 0)
DidFrame(f) == DidFrameIn(f, 0)
NoBurst == [n |-> 0, base |-> 0, at |-> ZeroVec]
NoMarker == [visible |-> FALSE, position |-> ZeroVec, hit |-> ZeroVec]

\* The estimates of the scenario of section 8: absent, present, present, absent,
\* the marker hidden before the first.
ScenarioPattern == <<FALSE, TRUE, TRUE, FALSE>>
Suffix(s, k) == SubSeq(s, Len(s) - k + 1, Len(s))
FollowsPattern(s) ==
  /\ Len(s) <= Len(ScenarioPattern)
  /\ Len(s) > 0 => ~s[1].before
  /\ \A i \in 1..Len(s) : s[i].present = ScenarioPattern[i]
\* The longest suffix of the frames seen that is a prefix of the pattern.
ScenarioStep(sc, entry) ==
  LET all == Append(sc, entry)
      ks == {k \in 0..Len(all) : FollowsPattern(Suffix(all, k))}
      best == CHOOSE k \in ks : \A j \in ks : j <= k
  IN Suffix(all, best)

----------------------------------------------------------------------------
\* gltfLoader.load callbacks

\* A load callback without reticle.visible = false: an Object3D is visible.
ReticleLoadedVisible ==
  /\ reticleLoad = "pending"
  /\ reticleLoad' = "done"
  /\ heap' = Append(heap, ZeroVec)
  /\ reticle' = [loaded |-> TRUE, visible |-> TRUE, position |-> Len(heap) + 1,
                 quaternion |-> IdentityQuat, scale |-> UnitScale]
  /\ scene' = Append(scene, Object3D("reticle", Len(heap) + 1, IdentityQuat, UnitScale))
  /\ console' = <<Log("reticle loaded")>>
  /\ last' = Did("reticleLoaded")
  /\ burst' = NoBurst
  /\ UNCHANGED <<page, pc, session, listening, pending, hitTestSource, modelLoad,
                 model, objectsPlaced, settled, scenario>>
  /\ UNCHANGED <<lab, earlier>>

\* main.ts 99-107: reticle = gltf.scene; reticle.visible = false; scene.add(reticle)
ReticleLoaded ==
  /\ reticleLoad = "pending"
  /\ reticleLoad' = "done"
  /\ heap' = Append(heap, ZeroVec)
  /\ reticle' = [loaded |-> TRUE, visible |-> FALSE, position |-> Len(heap) + 1,
                 quaternion |-> IdentityQuat, scale |-> UnitScale]
  /\ scene' = Append(scene, Object3D("reticle", Len(heap) + 1, IdentityQuat, UnitScale))
  /\ console' = <<Log("reticle loaded")>>
  /\ last' = Did("reticleLoaded")
  /\ burst' = NoBurst
  /\ UNCHANGED <<page, pc, session, listening, pending, hitTestSource, modelLoad,
                 model, objectsPlaced, settled, scenario>>
  /\ UNCHANGED <<lab, earlier>>

\* main.ts 111-115: model = gltf.scene; model.scale.set(0.2, 0.2, 0.2)
ModelLoaded ==
  /\ modelLoad = "pending"
  /\ modelLoad' = "done"
  /\ heap' = Append(heap, ZeroVec)
  /\ model' = [loaded |-> TRUE, visible |-> TRUE, position |-> Len(heap) + 1,
               quaternion |-> IdentityQuat, scale |-> ModelScale]
  /\ console' = <<Log("model loaded")>>
  /\ last' = Did("modelLoaded")
  /\ burst' = NoBurst
  /\ UNCHANGED <<page, pc, session, listening, pending, hitTestSource, reticleLoad,
                 reticle, scene, objectsPlaced, settled, scenario>>
  /\ UNCHANGED <<lab, earlier>>

\* The two load callbacks of an earlier activation: the closure they assign
\* to and the scene they add to are that activation's.
ReticleLoadedEarlier(k) ==
  LET c == earlier[k]
      ref == Len(c.heap) + 1
  IN /\ c.reticleLoad = "pending"
     /\ earlier' = [earlier EXCEPT ![k] =
          [c EXCEPT !.reticleLoad = "done",
                    !.heap = Append(c.heap, ZeroVec),
                    !.reticle = [loaded |-> TRUE, visible |-> FALSE, position |-> ref,
                                 quaternion |-> IdentityQuat, scale |-> UnitScale],
                    !.scene = Append(c.scene, Object3D("reticle", ref, IdentityQuat, UnitScale))]]
     /\ console' = <<Log("reticle loaded")>>
     /\ last' = DidIn("reticleLoaded", k)
     /\ burst' = NoBurst
     /\ scenario' = <<>>
     /\ UNCHANGED <<lab, page, pc, session, listening, pending, closure, settled>>

ModelLoadedEarlier(k) ==
  LET c == earlier[k]
      ref == Len(c.heap) + 1
  IN /\ c.modelLoad = "pending"
     /\ earlier' = [earlier EXCEPT ![k] =
          [c EXCEPT !.modelLoad = "done",
                    !.heap = Append(c.heap, ZeroVec),
                    !.model = [loaded |-> TRUE, visible |-> TRUE, position |-> ref,
                               quaternion |-> IdentityQuat, scale |-> ModelScale]]]
     /\ console' = <<Log("model loaded")>>
     /\ last' = DidIn("modelLoaded", k)
     /\ burst' = NoBurst
     /\ scenario' = <<>>
     /\ UNCHANGED <<lab, page, pc, session, listening, pending, closure, settled>>

----------------------------------------------------------------------------
\* The select listener, main.ts 119-129

\* The test without reticle.visible.
CanPlaceHidden(m, r) == m.loaded /\ r.loaded
\* The test with a debounce: a select right after a select is ignored.
CanPlaceDebounced(m, r) == m.loaded /\ r.loaded /\ r.visible /\ last.op # "select"
\* if (model && reticle && reticle.visible)
CanPlace(m, r) == m.loaded /\ r.loaded /\ r.visible

\* A clone left where the model is: no clone.position.copy.
PlaceCloneAtModel(h, m, r) ==
  [heap |-> Append(h, h[m.position]),
   child |-> Object3D("clone", Len(h) + 1, m.quaternion, m.scale)]
\* A clone that holds the reticle's own position vector instead of a copy.
PlaceCloneShared(h, m, r) ==
  [heap |-> Append(h, h[m.position]),
   child |-> Object3D("clone", r.position, m.quaternion, m.scale)]
\* const clone = model.clone(); clone.position.copy(reticle.position)
\* The clone is a new Object3D with a Vector3 of its own, first a copy of
\* the model's and then of the reticle's.
PlaceClone(h, m, r) ==
  LET ref == Len(h) + 1
      cloned == Append(h, h[m.position])
  IN [heap |-> VecCopy(cloned, ref, r.position),
      child |-> Object3D("clone", ref, m.quaternion, m.scale)]

\* A listener that counts the tap before it looks at the model.
onSelectCountsFirst ==
  /\ lab = 2
  /\ listening
  /\ TotalPlaced < MaxPlaced
  /\ IF reticle.loaded /\ reticle.visible
       THEN /\ objectsPlaced' = objectsPlaced + 1
            /\ IF model.loaded
                 THEN LET placed == PlaceClone(heap, model, reticle)
                      IN heap' = placed.heap /\ scene' = Append(scene, placed.child)
                 ELSE UNCHANGED <<heap, scene>>
            /\ console' = <<LogEntry("placed", heap[reticle.position], objectsPlaced + 1)>>
       ELSE /\ UNCHANGED <<heap, scene, objectsPlaced>>
            /\ console' = <<>>
  /\ last' = Did("select")
  /\ burst' = NoBurst
  /\ UNCHANGED <<page, pc, session, listening, pending, hitTestSource, reticleLoad,
                 modelLoad, reticle, model, settled, scenario>>
  /\ UNCHANGED <<lab, earlier>>

onSelect ==
  /\ lab = 2
  /\ listening
  /\ TotalPlaced < MaxPlaced
  /\ IF CanPlace(model, reticle)
       THEN LET placed == PlaceClone(heap, model, reticle)
            IN /\ heap' = placed.heap
               /\ scene' = Append(scene, placed.child)
               /\ objectsPlaced' = objectsPlaced + 1
               /\ console' = <<LogEntry("placed", heap[reticle.position], objectsPlaced + 1)>>
       ELSE /\ UNCHANGED <<heap, scene, objectsPlaced>>
            /\ console' = <<>>
  /\ last' = Did("select")
  /\ burst' = IF burst.n > 0 /\ last.activation = 0
                THEN [burst EXCEPT !.n = burst.n + 1]
              ELSE IF Ready THEN [n |-> 1, base |-> objectsPlaced, at |-> MarkerPosition]
              ELSE NoBurst
  /\ UNCHANGED <<page, pc, session, listening, pending, hitTestSource, reticleLoad,
                 modelLoad, reticle, model, settled, scenario>>
  /\ UNCHANGED <<lab, earlier>>

\* The select listener of an earlier activation, still registered on its
\* session.
onSelectEarlier(k) ==
  LET c == earlier[k]
      placed == PlaceClone(c.heap, c.model, c.reticle)
      mine == burst.n > 0 /\ last.activation = k
  IN /\ lab = 2
     /\ TotalPlaced < MaxPlaced
     /\ IF CanPlace(c.model, c.reticle)
          THEN /\ earlier' = [earlier EXCEPT ![k] =
                    [c EXCEPT !.heap = placed.heap,
                              !.scene = Append(c.scene, placed.child),
                              !.objectsPlaced = c.objectsPlaced + 1]]
               /\ console' = <<LogEntry("placed", c.heap[c.reticle.position],
                                        c.objectsPlaced + 1)>>
          ELSE /\ UNCHANGED earlier
               /\ console' = <<>>
     /\ last' = DidIn("select", k)
     /\ burst' = IF mine THEN [burst EXCEPT !.n = burst.n + 1]
                 ELSE IF ReadyOf(c)
                   THEN [n |-> 1, base |-> c.objectsPlaced, at |-> MarkerPositionOf(c)]
                 ELSE NoBurst
     /\ scenario' = <<>>
     /\ UNCHANGED <<lab, page, pc, session, listening, pending, closure, settled>>

----------------------------------------------------------------------------
\* The animation-frame callback onXRFrame, main.ts 131-181

\* The callback gets as far as `if (hitTestSource)` and enters it: the base
\* layer is there (136, 143), the viewer pose is not null (140), the viewport
\* is there (145) and the hit-test source was created (149).
ReachesHitTestOf(c, f) == f.baseLayer /\ f.viewerPose /\ f.viewport /\ c.hitTestSource
ReachesHitTest(f) == ReachesHitTestOf(Activation, f)

\* The surface estimate of the frame: a hit-test result with a pose.
EstimatePresent(f) == f.hit.results > 0 /\ f.hit.hasPose

\* main.ts 151-172, reticle.visible
ReticleAfterFrame(r, hit) ==
  IF hit.results > 0 /\ r.loaded
    THEN IF hit.hasPose THEN [r EXCEPT !.visible = TRUE] ELSE r
    ELSE IF r.loaded THEN [r EXCEPT !.visible = FALSE] ELSE r

\* A frame that does not write the position.
HeapAfterFrameUnwritten(h, r, hit) == h
\* A frame that also moves the vector allocated last (the model's, a clone's).
HeapAfterFrameLatest(h, r, hit) ==
  IF hit.results > 0 /\ r.loaded /\ hit.hasPose
    THEN VecSet(VecSet(h, r.position, hit.position[1], hit.position[2], hit.position[3]),
                Len(h), hit.position[1], hit.position[2], hit.position[3])
    ELSE h
\* main.ts 160-164, reticle.position.set(x, y, z) of hitPose.transform.position
HeapAfterFrame(h, r, hit) ==
  IF hit.results > 0 /\ r.loaded /\ hit.hasPose
    THEN VecSet(h, r.position, hit.position[1], hit.position[2], hit.position[3])
    ELSE h

\* main.ts 154-158 and 168-170, the two console.log calls
FrameLog(r, hit) ==
  IF hit.results > 0 /\ r.loaded
    THEN IF hit.hasPose /\ ~r.visible THEN <<Log("surface detected")>> ELSE <<>>
    ELSE IF r.loaded /\ r.visible THEN <<Log("surface lost")>> ELSE <<>>

FrameEvent(log) == IF log = <<>> THEN "none" ELSE log[1].event

\* A callback that requests the next frame as its last statement: not after
\* the TypeError of a missing base layer, not after an early return.
FrameRequestsAtEnd(f) == IF f.baseLayer /\ (~f.viewerPose \/ f.viewport) THEN 1 ELSE 0
\* main.ts 132, part_000 81: session.requestAnimationFrame(onXRFrame) is the
\* first statement of the callback, whatever the frame holds.
FrameRequests(f) == 1

onXRFrame(f) ==
  /\ pending > 0
  /\ pending' = (pending - 1) + FrameRequests(f)
  /\ IF ReachesHitTest(f)
       THEN /\ reticle' = ReticleAfterFrame(reticle, f.hit)
            /\ heap' = HeapAfterFrame(heap, reticle, f.hit)
            /\ console' = FrameLog(reticle, f.hit)
       ELSE /\ UNCHANGED <<reticle, heap>>
            /\ console' = <<>>
  /\ last' = DidFrame(f)
  /\ settled' = [visible |-> MarkerVisible', position |-> MarkerPosition',
                 hit |-> IF ReachesHitTest(f) /\ reticle.loaded /\ EstimatePresent(f)
                           THEN f.hit.position ELSE settled.hit]
  /\ scenario' = IF ReachesHitTest(f) /\ reticle.loaded
                   THEN ScenarioStep(scenario, [present |-> EstimatePresent(f),
                                                before |-> MarkerVisible,
                                                visible |-> MarkerVisible',
                                                event |-> FrameEvent(console')])
                   ELSE <<>>
  /\ burst' = NoBurst
  /\ UNCHANGED <<page, pc, session, listening, hitTestSource, reticleLoad, modelLoad,
                 model, scene, objectsPlaced>>
  /\ UNCHANGED <<lab, earlier>>

\* A frame callback still requested on the session of an earlier activation.
onXRFrameEarlier(k, f) ==
  LET c == earlier[k]
      reaches == ReachesHitTestOf(c, f)
      r == IF reaches THEN ReticleAfterFrame(c.reticle, f.hit) ELSE c.reticle
      h == IF reaches THEN HeapAfterFrame(c.heap, c.reticle, f.hit) ELSE c.heap
  IN /\ c.pending > 0
     /\ earlier' = [earlier EXCEPT ![k] =
          [c EXCEPT !.pending = (c.pending - 1) + FrameRequests(f),
                    !.reticle = r,
                    !.heap = h,
                    !.settled = [visible |-> r.loaded /\ r.visible,
                                 position |-> IF r.loaded THEN h[r.position] ELSE ZeroVec,
                                 hit |-> IF reaches /\ c.reticle.loaded /\ EstimatePresent(f)
                                           THEN f.hit.position ELSE c.settled.hit]]]
     /\ console' = IF reaches THEN FrameLog(c.reticle, f.hit) ELSE <<>>
     /\ last' = DidFrameIn(f, k)
     /\ burst' = NoBurst
     /\ scenario' = <<>>
     /\ UNCHANGED <<lab, page, pc, session, listening, pending, closure, settled>>

----------------------------------------------------------------------------
\* The end listener, main.ts 183-187; the session ends whether or not the
\* listener is registered yet.

\* An end listener that clears what was placed.
SessionEndClearing ==
  /\ session = "active"
  /\ session' = "ended"
  /\ IF listening
       THEN /\ message' = MsgEnded
            /\ btnDisabled' = FALSE
            /\ console' = IF lab = 2 THEN <<Log("session ended")>> ELSE <<>>
            /\ scene' = SelectSeq(scene, LAMBDA c : c.kind # "clone")
            /\ objectsPlaced' = 0
       ELSE /\ UNCHANGED <<page, scene, objectsPlaced>>
            /\ console' = <<>>
  /\ last' = Did("end")
  /\ burst' = NoBurst
  /\ UNCHANGED <<pc, listening, pending, hitTestSource, reticleLoad, modelLoad,
                 reticle, model, heap, settled, scenario>>
  /\ UNCHANGED <<lab, earlier>>

SessionEnd ==
  /\ session = "active"
  /\ session' = "ended"
  /\ IF listening
       THEN /\ message' = MsgEnded
            /\ btnDisabled' = FALSE
            /\ console' = IF lab = 2 THEN <<Log("session ended")>> ELSE <<>>
       ELSE /\ UNCHANGED page
            /\ console' = <<>>
  /\ last' = Did("end")
  /\ burst' = NoBurst
  /\ UNCHANGED <<pc, listening, pending, closure, settled, scenario>>
  /\ UNCHANGED <<lab, earlier>>

----------------------------------------------------------------------------
\* activateXR, main.ts 18-198

\* A return after setMessage(text); enableButton(btn)
GiveUp(text) ==
  /\ message' = text
  /\ btnDisabled' = FALSE
  /\ pc' = "idle"

\* main.ts 44-63: a new scene with its two lights; nothing loaded, no listener.
\* part_000 40-62: a new scene with the cube at (1, 1, 1).
\* The closure before it stays with the callbacks it registered, if any
\* (MaxEarlier of them are followed); one that registered none is garbage.
NewClosure ==
  /\ listening => Len(earlier) < MaxEarlier
  /\ earlier' = IF listening THEN Append(earlier, Activation) ELSE earlier
  /\ heap' = IF lab = 2 THEN <<DirectionalLightPosition, ZeroVec>> ELSE <<CubePosition>>
  /\ scene' = IF lab = 2
                THEN <<Object3D("directionalLight", 1, IdentityQuat, UnitScale),
                       Object3D("ambientLight", 2, IdentityQuat, UnitScale)>>
                ELSE <<Object3D("cube", 1, IdentityQuat, UnitScale)>>
  /\ reticle' = NullObject
  /\ model' = NullObject
  /\ reticleLoad' = "none"
  /\ modelLoad' = "none"
  /\ hitTestSource' = FALSE
  /\ objectsPlaced' = 0
  /\ listening' = FALSE
  /\ pending' = 0
  /\ settled' = NoMarker
  /\ scenario' = <<>>

\* The click on #start-ar, up to the first await (main.ts 19-67).  A disabled
\* button gets no click.  xr: navigator.xr is there; gl: getContext gave one.
Click(xr, gl) ==
  /\ ~btnDisabled
  /\ pc = "idle"
  /\ IF ~xr
       THEN /\ GiveUp(MsgUnsupported)
            /\ UNCHANGED <<listening, pending, closure, settled, scenario, earlier>>
       ELSE IF ~gl
         THEN /\ GiveUp(MsgNoWebGL)
              /\ UNCHANGED <<listening, pending, closure, settled, scenario, earlier>>
         ELSE /\ btnDisabled' = TRUE
              /\ message' = MsgStarting
              /\ pc' = "requestSession"
              /\ NewClosure
  /\ console' = <<>>
  /\ last' = Did("click")
  /\ burst' = NoBurst
  /\ UNCHANGED session
  /\ UNCHANGED lab

\* navigator.xr.requestSession resolves (main.ts 67-82): one immersive session
\* at a time.  Runs up to await session.requestReferenceSpace("local").
SessionGranted ==
  /\ pc = "requestSession"
  /\ session # "active"
  /\ session' = "active"
  /\ pc' = "requestLocalSpace"
  /\ console' = IF lab = 2 THEN <<Log("session started")>> ELSE <<>>
  /\ last' = Did("sessionGranted")
  /\ burst' = NoBurst
  /\ UNCHANGED <<page, listening, pending, closure, settled, scenario>>
  /\ UNCHANGED <<lab, earlier>>

\* navigator.xr.requestSession rejects: the inner catch, main.ts 71-76
SessionRefused ==
  /\ pc = "requestSession"
  /\ GiveUp(MsgSessionFailed)
  /\ console' = <<>>
  /\ last' = Did("sessionRefused")
  /\ burst' = NoBurst
  /\ UNCHANGED <<session, listening, pending, closure, settled, scenario>>
  /\ UNCHANGED <<lab, earlier>>

\* main.ts 96-192, the part after the last await: the two loads start, the
\* listeners are registered, the first frame is requested.
\* part_000 80-111: the end listener is registered, the first frame is
\* requested; there is nothing to load.
Setup(hts) ==
  /\ hitTestSource' = hts
  /\ reticleLoad' = IF lab = 2 THEN "pending" ELSE "none"
  /\ modelLoad' = IF lab = 2 THEN "pending" ELSE "none"
  /\ objectsPlaced' = 0
  /\ listening' = TRUE
  /\ pending' = pending + 1
  /\ message' = IF lab = 2 THEN MsgActive ELSE MsgActiveCube
  /\ pc' = "idle"
  /\ UNCHANGED <<btnDisabled, session, reticle, model, heap, scene, settled, scenario>>

\* A promise awaited after requestSession resolves.  has: the session has a
\* requestHitTestSource method (main.ts 89).
Resolved(has) ==
  /\ \/ /\ pc = "requestLocalSpace"
        /\ lab = 1
        /\ Setup(FALSE)
        /\ console' = <<>>
     \/ /\ pc = "requestLocalSpace"
        /\ lab = 2
        /\ pc' = "requestViewerSpace"
        /\ console' = <<>>
        /\ UNCHANGED <<page, session, listening, pending, closure, settled, scenario>>
     \/ /\ pc = "requestViewerSpace"
        /\ has
        /\ pc' = "requestHitTestSource"
        /\ console' = <<>>
        /\ UNCHANGED <<page, session, listening, pending, closure, settled, scenario>>
     \/ /\ pc = "requestViewerSpace"
        /\ ~has
        /\ Setup(FALSE)
        /\ console' = <<>>
     \/ /\ pc = "requestHitTestSource"
        /\ Setup(TRUE)
        /\ console' = <<Log("hit test source created")>>
  /\ last' = Did("resolved")
  /\ burst' = NoBurst
  /\ UNCHANGED <<lab, earlier>>

\* A promise awaited after requestSession rejects: the outer catch, 193-197
Rejected ==
  /\ pc \in {"requestLocalSpace", "requestViewerSpace", "requestHitTestSource"}
  /\ GiveUp(MsgError)
  /\ console' = <<>>
  /\ last' = Did("rejected")
  /\ burst' = NoBurst
  /\ UNCHANGED <<session, listening, pending, closure, settled, scenario>>
  /\ UNCHANGED <<lab, earlier>>

----------------------------------------------------------------------------
\* The page after init() has registered the click listener (main.ts 200-210):
\* init registers it only when #start-ar exists, so activateXR always finds
\* the button, and the button starts enabled.

Init ==
  /\ lab \in {1, 2}
  /\ btnDisabled = FALSE
  /\ message = MsgNone
  /\ pc = "idle"
  /\ session = "none"
  /\ listening = FALSE
  /\ pending = 0
  /\ hitTestSource = FALSE
  /\ reticleLoad = "none"
  /\ modelLoad = "none"
  /\ reticle = NullObject
  /\ model = NullObject
  /\ heap = <<>>
  /\ scene = <<>>
  /\ objectsPlaced = 0
  /\ console = <<>>
  /\ last = Did("init")
  /\ settled = NoMarker
  /\ burst = NoBurst
  /\ scenario = <<>>
  /\ earlier = <<>>

Next ==
  \/ \E xr \in BOOLEAN, gl \in BOOLEAN : Click(xr, gl)
  \/ SessionGranted
  \/ SessionRefused
  \/ \E has \in BOOLEAN : Resolved(has)
  \/ Rejected
  \/ ReticleLoaded
  \/ ModelLoaded
  \/ onSelect
  \/ \E f \in FrameInputs : onXRFrame(f)
  \/ SessionEnd
  \/ \E k \in 1..Len(earlier) : ReticleLoadedEarlier(k)
  \/ \E k \in 1..Len(earlier) : ModelLoadedEarlier(k)
  \/ \E k \in 1..Len(earlier) : onSelectEarlier(k)
  \/ \E k \in 1..Len(earlier), f \in FrameInputs : onXRFrameEarlier(k, f)

Spec == Init /\ [][Next]_vars

----------------------------------------------------------------------------
\* Properties

\* The closure the most recent callback worked on; over a step, the closure
\* the step's callback works on as it was before and as it is after.
Subject == ActivationOf(last.activation)
Before == ActivationOf(last'.activation)
After == Subject'
\* Every closure but the one the step's callback works on stays as it was.
OthersUntouched ==
  \A k \in Activations : k # last'.activation => ActivationOf(k)' = ActivationOf(k)

\* The most recent callback was a frame callback that ran the hit test with
\* the reticle loaded.
FrameTracked ==
  last.op = "frame" /\ ReachesHitTestOf(Subject, last.frame) /\ Subject.reticle.loaded
\* The child the step added to the scene.
Added == After.scene[Len(After.scene)]
\* The end listener of activation k has run: the page shows it for the most
\* recent activation, and an earlier one was replaced after it.
Ended(k) == k > 0 \/ (message = MsgEnded /\ session = "ended" /\ listening)

\* C1, as claimed: after a frame callback (one that ran the hit test, the
\* reticle loaded) the marker is visible if and only if the frame's surface
\* estimate was present.  The code leaves a visible marker visible when the
\* hit test has a result whose pose is null.
C1_VisibleIffEstimatePresent ==
  FrameTracked => (MarkerVisibleOf(Subject) <=> EstimatePresent(last.frame))

\* C2, as claimed: after a frame callback whose estimate is present the
\* marker's position and orientation are those of the estimate.
C2_WholeTransformCopied ==
  (FrameTracked /\ EstimatePresent(last.frame))
    => /\ MarkerPositionOf(Subject) = last.frame.hit.position
       /\ MarkerOrientationOf(Subject) = last.frame.hit.orientation

\* C2, amended: after a frame callback whose estimate is present the marker
\* is visible and its position is the estimate's position, all three
\* coordinates; the estimate's orientation is not copied and the marker keeps
\* the orientation the reticle was loaded with.
C2_PositionCopied ==
  (FrameTracked /\ EstimatePresent(last.frame))
    => /\ MarkerVisibleOf(Subject)
       /\ MarkerPositionOf(Subject) = last.frame.hit.position
       /\ MarkerOrientationOf(Subject) = IdentityQuat

C2_Witness ==
  /\ FrameTracked
  /\ EstimatePresent(last.frame)
  /\ last.frame.hit.orientation # IdentityQuat
  /\ MarkerPositionOf(Subject) = last.frame.hit.position

\* C3: a select handled with the asset loaded and the marker visible adds one
\* to objectsPlaced and appends exactly one child to the scene, a clone whose
\* position and orientation are the marker's at that moment; this of the
\* activation the select listener belongs to, the most recent or an earlier
\* one.
C3_SelectPlacesOne ==
  [][(last'.op = "select" /\ ReadyOf(Before))
       => /\ After.objectsPlaced = Before.objectsPlaced + 1
          /\ Len(After.scene) = Len(Before.scene) + 1
          /\ SubSeq(After.scene, 1, Len(Before.scene)) = Before.scene
          /\ Added.kind = "clone"
          /\ After.heap[Added.position] = MarkerPositionOf(Before)
          /\ Added.quaternion = MarkerOrientationOf(Before)
          /\ OthersUntouched]_vars

\* A select of an earlier activation has placed a clone in that activation's
\* scene, at its marker.
C3_Witness ==
  /\ last.op = "select"
  /\ last.activation = 1
  /\ Subject.objectsPlaced >= 1
  /\ console # <<>> /\ console[1].event = "placed"
  /\ MarkerPositionOf(Subject) # ZeroVec
  /\ Subject.heap[Subject.scene[Len(Subject.scene)].position] = MarkerPositionOf(Subject)

\* C4: a select handled while the marker is not visible (also while the
\* reticle is not loaded) changes neither objectsPlaced nor the scene nor any
\* position, and logs nothing.
C4_HiddenMarkerNoPlacement ==
  [][(last'.op = "select" /\ ~MarkerVisibleOf(Before))
       => /\ After.objectsPlaced = Before.objectsPlaced
          /\ After.scene = Before.scene
          /\ After.heap = Before.heap
          /\ OthersUntouched
          /\ console' = <<>>]_vars

C4_Witness ==
  /\ last.op = "select"
  /\ Subject.model.loaded /\ Subject.reticle.loaded /\ ~Subject.reticle.visible
  /\ Subject.settled.hit # ZeroVec
  /\ Subject.objectsPlaced = 0 /\ console = <<>>

\* C5: a select handled before the model has loaded changes neither
\* objectsPlaced nor the scene, visible marker or not; as long as the model
\* has not loaded objectsPlaced is 0 and the scene holds no clone.
C5_UnloadedAssetNoPlacement ==
  /\ [](\A k \in Activations :
          ~ActivationOf(k).model.loaded
            => (ActivationOf(k).objectsPlaced = 0 /\ PlacedOf(ActivationOf(k)) = <<>>))
  /\ [][(last'.op = "select" /\ ~Before.model.loaded)
          => /\ After.objectsPlaced = Before.objectsPlaced
             /\ After.scene = Before.scene
             /\ After.heap = Before.heap]_vars

C5_Witness ==
  /\ last.op = "select"
  /\ ~Subject.model.loaded
  /\ MarkerVisibleOf(Subject)
  /\ Subject.objectsPlaced = 0

\* C6, as claimed: once the end listener has run, a frame callback or a
\* select changes neither the marker nor objectsPlaced nor the scene.  The
\* listeners have no test of the session having ended.
C6_NothingAfterEnd ==
  [][(Ended(last'.activation) /\ last'.op \in {"select", "frame"})
       => /\ After.reticle = Before.reticle
          /\ After.heap = Before.heap
          /\ After.scene = Before.scene
          /\ After.objectsPlaced = Before.objectsPlaced]_vars

\* C7: the position, orientation and scale of a placed clone are its own: no
\* later frame callback or select, of whichever activation, changes them, and
\* no clone shares its position vector with the reticle, the model or another
\* child of the scene.
NoSharedPosition(c) ==
  \A i \in 1..Len(c.scene) :
    c.scene[i].kind = "clone"
      => /\ c.scene[i].position # c.model.position
         /\ c.scene[i].position # c.reticle.position
         /\ \A j \in 1..Len(c.scene) : j # i => c.scene[j].position # c.scene[i].position

ClonesKept(b, a) ==
  \A i \in 1..Len(b.scene) :
    b.scene[i].kind = "clone"
      => /\ Len(a.scene) >= i
         /\ a.scene[i] = b.scene[i]
         /\ a.heap[b.scene[i].position] = b.heap[b.scene[i].position]

C7_PlacedTransformIsSnapshot ==
  /\ [](\A k \in Activations : NoSharedPosition(ActivationOf(k)))
  /\ [][last'.op \in {"select", "frame"}
          => \A k \in Activations : ClonesKept(ActivationOf(k), ActivationOf(k)')]_vars

C7_Witness ==
  /\ last.op = "frame"
  /\ MarkerVisibleOf(Subject)
  /\ Len(PlacedOf(Subject)) = 2
  /\ Subject.heap[PlacedOf(Subject)[1].position] # MarkerPositionOf(Subject)
  /\ Subject.heap[PlacedOf(Subject)[2].position] # Subject.heap[PlacedOf(Subject)[1].position]

\* C8, as claimed: over four frame callbacks in a row with estimates absent,
\* present, present, absent, the marker hidden before the first, the marker
\* is hidden, visible, visible, hidden, "surface detected" is logged at the
\* second and "surface lost" at the fourth and nothing else is logged.
C8_Scenario ==
  (Len(scenario) = Len(ScenarioPattern) /\ ~scenario[1].before)
    => /\ [i \in 1..Len(scenario) |-> scenario[i].visible] = <<FALSE, TRUE, TRUE, FALSE>>
       /\ [i \in 1..Len(scenario) |-> scenario[i].event]
            = <<"none", "surface detected", "none", "surface lost">>

\* C9: selects are not debounced.  After k selects in a row in one
\* activation, the first of them handled with the asset loaded and the marker
\* visible at T, objectsPlaced is k more than before them and the last k
\* children of the scene are clones at T, where the marker still is.
C9_SelectsNotDebounced ==
  burst.n > 0
    => /\ Subject.objectsPlaced = burst.base + burst.n
       /\ Len(Subject.scene) >= burst.n
       /\ \A i \in 1..burst.n :
            /\ Subject.scene[Len(Subject.scene) + 1 - i].kind = "clone"
            /\ Subject.heap[Subject.scene[Len(Subject.scene) + 1 - i].position] = burst.at
       /\ MarkerVisibleOf(Subject)
       /\ MarkerPositionOf(Subject) = burst.at

C9_Witness ==
  /\ burst.n = 2
  /\ burst.at # ZeroVec
  /\ Subject.objectsPlaced = burst.base + 2

\* C10: between callbacks the marker of every activation is as its most
\* recent frame callback left it, and a visible marker stands at the position
\* of the latest estimate written to it; a select places if and only if that
\* settled marker is visible and the model is loaded, and places at the
\* settled position.
Settled(c) ==
  /\ MarkerVisibleOf(c) = c.settled.visible
  /\ MarkerPositionOf(c) = c.settled.position
  /\ (MarkerVisibleOf(c) => MarkerPositionOf(c) = c.settled.hit)

C10_SelectSeesSettledMarker ==
  /\ [](\A k \in Activations : Settled(ActivationOf(k)))
  /\ [][last'.op = "select"
          => /\ (After.objectsPlaced = Before.objectsPlaced + 1)
                  <=> (Before.settled.visible /\ Before.model.loaded)
             /\ (After.objectsPlaced = Before.objectsPlaced)
                  <=> ~(Before.settled.visible /\ Before.model.loaded)
             /\ (After.objectsPlaced # Before.objectsPlaced)
                  => After.heap[Added.position] = Before.settled.position]_vars

C10_Witness ==
  /\ last.op = "select"
  /\ Subject.objectsPlaced = 1
  /\ Subject.settled.visible
  /\ Subject.settled.hit # ZeroVec
  /\ Subject.heap[Subject.scene[Len(Subject.scene)].position] = Subject.settled.hit

\* C11: over frame, select, load and end callbacks, of whichever activation,
\* objectsPlaced of no activation decreases and no clone leaves a scene or
\* changes its place in it.
Grown(b, a) ==
  /\ a.objectsPlaced >= b.objectsPlaced
  /\ Len(a.scene) >= Len(b.scene)
  /\ Len(PlacedOf(a)) >= Len(PlacedOf(b))
  /\ \A i \in 1..Len(b.scene) : b.scene[i].kind = "clone" => a.scene[i] = b.scene[i]

C11_PlacedNeverDecreases ==
  [][last'.op \in {"frame", "select", "reticleLoaded", "modelLoaded", "end"}
       => \A k \in Activations : Grown(ActivationOf(k), ActivationOf(k)')]_vars

C11_Witness ==
  /\ last.op = "end"
  /\ message = MsgEnded
  /\ objectsPlaced = 2
  /\ Len(Placed) = 2

\* C12: a frame callback changes nothing but the visibility and the position
\* vector of the reticle of its own activation: the model, objectsPlaced, the
\* scene, the two loads and every other vector (the model's, the clones')
\* stay, and so does every other activation.
C12_FrameTouchesOnlyMarker ==
  [][last'.op = "frame"
       => /\ After.model = Before.model
          /\ After.modelLoad = Before.modelLoad
          /\ After.reticleLoad = Before.reticleLoad
          /\ After.objectsPlaced = Before.objectsPlaced
          /\ After.scene = Before.scene
          /\ After.reticle = [Before.reticle EXCEPT !.visible = After.reticle.visible]
          /\ Len(After.heap) = Len(Before.heap)
          /\ \A i \in 1..Len(Before.heap) :
               i # Before.reticle.position => After.heap[i] = Before.heap[i]
          /\ OthersUntouched]_vars

\* A frame callback of an earlier activation has moved that activation's
\* marker away from the clone placed there; the model stays at the origin.
C12_Witness ==
  /\ last.op = "frame"
  /\ last.activation = 1
  /\ EstimatePresent(last.frame)
  /\ MarkerVisibleOf(Subject)
  /\ Subject.model.loaded
  /\ Subject.objectsPlaced = 1
  /\ Subject.heap[PlacedOf(Subject)[1].position] # MarkerPositionOf(Subject)
  /\ Subject.heap[Subject.model.position] = ZeroVec

\* C13: while the session is active and the listeners are registered exactly
\* one frame callback is pending, and every frame callback, whichever branch
\* it takes, leaves exactly one pending; never more than one is pending on
\* the session of any activation.
C13_FrameLoopRearmsOnce ==
  /\ [](/\ \A k \in Activations : ActivationOf(k).pending <= 1
        /\ (listening /\ session = "active") => pending = 1)
  /\ [][last'.op = "frame" => (Before.pending = 1 /\ After.pending = 1)]_vars

C13_Witness ==
  /\ last.op = "frame"
  /\ last.activation = 0
  /\ ~last.frame.viewport
  /\ session = "active"
  /\ pending = 1

\* C14, as claimed: the start button is enabled only when no session is
\* active.  The outer catch enables it and leaves the session running.
C14_EnabledOnlyWithoutSession ==
  ~btnDisabled => session # "active"

\* C15, as claimed: whenever the button is disabled, activateXR is still
\* running or a session is active whose end listener is registered.  A
\* session that ends before the listener is attached is never noticed.
C15_DisabledCanBeEnabled ==
  btnDisabled => (pc # "idle" \/ (session = "active" /\ listening))

\* C16: in every activation objectsPlaced is the number of clones in the
\* scene, and the reticle is visible only if it has loaded and a frame
\* callback of that activation has written a surface estimate to it.
CounterAndVisibility(c) ==
  /\ c.objectsPlaced = Len(PlacedOf(c))
  /\ c.reticle.visible => (c.reticle.loaded /\ c.settled.hit \in HitPositions)

C16_CounterAndVisibility ==
  \A k \in Activations : CounterAndVisibility(ActivationOf(k))

C16_Witness ==
  /\ reticle.visible
  /\ objectsPlaced = 2
  /\ Len(Placed) = 2
  /\ last.op = "select"
  /\ last.activation = 0

====
